---- MODULE Spec2Model ----
(***************************************************************************)
(* Configuration cascade synchronisation and settings-edit protocol of     *)
(* src/shared/backend/extensions.ts.                                       *)
(*                                                                         *)
(* configurationCascade is combineLatest(observeSync(url), refreshes with  *)
(* startWith).pipe(switchMap(queryGraphQL ...)): every subscription builds *)
(* its own pipeline (own combineLatest state, own switchMap inner fetch).  *)
(* A pipeline is owned either by a long-lived consumer or by one call of   *)
(* updateExtensionSettings, which subscribes with take(1).                 *)
(*                                                                         *)
(* Queries and mutations are asynchronous: a request is sent in one step   *)
(* and answered by the store in a later one.  Everything RxJS does         *)
(* synchronously (Subject.next reaching every subscriber, switchMap        *)
(* switching, take(1) unsubscribing) is part of the step that causes it.   *)
(***************************************************************************)
EXTENDS Integers, Sequences, FiniteSets, TLC

\* ---------------------------------------------------------------- bounds
NumConsumers == 2
NumEdits == 2
MaxFetches == 2

Consumers == 1..NumConsumers
EditCalls == (NumConsumers + 1)..(NumConsumers + NumEdits)
Pipes == Consumers \cup EditCalls

\* ------------------------------------------------------------ JS values
\* JS values are tagged with their typeof; null and undefined are values.
JSNull == [t |-> "null"]
JSUndefined == [t |-> "undefined"]
JSString(s) == [t |-> "string", v |-> s]
JSNumber(n) == [t |-> "number", v |-> n]
JSBoolean(b) == [t |-> "boolean", v |-> b]
TypeOf(x) == x.t

\* ------------------------------------------------------- the environment
URLs == {"url1", "url2"}
\* The subjects of the remote store, in the order the store lists them.
StoreSubjects == <<"s1", "s2">>
SubjectIDs == {StoreSubjects[i] : i \in 1..Len(StoreSubjects)}
\* Subject identifiers a caller may pass: "sx" is known to no store.
SubjectArgs == SubjectIDs \cup {"sx"}
\* store[s] = 0: the subject has no settings document yet.
InitStore == [s \in SubjectIDs |-> IF s = "s1" THEN 0 ELSE 1]

\* Arguments of updateExtensionSettings (UpdateExtensionSettingsArgs).
\* editIn / extIn: the property is present ('edit' in args).
ExplicitArgs ==
    [editIn |-> TRUE,
     edit |-> [t |-> "object",
               path |-> <<JSString("ui"), JSNumber(0)>>,
               value |-> JSString("dark")],
     extIn |-> FALSE, extensionID |-> "", enabled |-> JSUndefined]
ToggleArgs(en) ==
    [editIn |-> FALSE, edit |-> JSUndefined,
     extIn |-> TRUE, extensionID |-> "foo", enabled |-> en]
NullEditToggleArgs ==
    [editIn |-> TRUE, edit |-> JSNull,
     extIn |-> TRUE, extensionID |-> "foo", enabled |-> JSBoolean(FALSE)]
EmptyArgs ==
    [editIn |-> FALSE, edit |-> JSUndefined,
     extIn |-> FALSE, extensionID |-> "", enabled |-> JSUndefined]
ArgShapes ==
    {ExplicitArgs, ToggleArgs(JSBoolean(TRUE)), ToggleArgs(JSUndefined),
     NullEditToggleArgs, EmptyArgs}

\* Every argument of the bounded shapes: key paths of up to MaxPathLen
\* segments, an edit property that is absent, undefined, null or an edit,
\* and an extensionID with enabled a boolean, undefined or null.
MaxPathLen == 2
Segments == {JSString("ui"), JSString("a"), JSNumber(0), JSNumber(1)}
KeyPaths == UNION {[1..n -> Segments] : n \in 0..MaxPathLen}
ExtensionIDs == {"foo", "bar"}
EnabledValues == {JSBoolean(TRUE), JSBoolean(FALSE), JSUndefined, JSNull}
AllArgs ==
    {[editIn |-> ei, edit |-> ed, extIn |-> xi, extensionID |-> id, enabled |-> en] :
        ei \in BOOLEAN,
        ed \in {JSUndefined, JSNull}
                \cup {[t |-> "object", path |-> kp, value |-> JSString("dark")] :
                            kp \in KeyPaths},
        xi \in BOOLEAN, id \in ExtensionIDs \cup {""}, en \in EnabledValues}
ArgInputs ==
    {a \in AllArgs :
        /\ ~a.editIn => a.edit = JSUndefined
        /\ a.extIn = (a.extensionID # "")
        /\ ~a.extIn => a.enabled = JSUndefined}

\* Responses of the store to the Configuration query: {data, errors}.
\* data is "vc" (data.viewerConfiguration present), "novc" (data without
\* viewerConfiguration) or "null"; messages is merged.messages.
FetchResponses ==
    {[data |-> "vc", messages |-> <<>>, errors |-> <<>>],
     [data |-> "vc", messages |-> <<"m1">>, errors |-> <<>>],
     [data |-> "null", messages |-> <<>>, errors |-> <<>>],
     [data |-> "novc", messages |-> <<>>, errors |-> <<"e1">>]}

\* Error lists of the store's answer to a mutation it accepts: the errors
\* property is absent or empty.
NoErrors == {[present |-> FALSE, list |-> <<>>], [present |-> TRUE, list |-> <<>>]}
ConflictErrors == [present |-> TRUE, list |-> <<"conflict">>]
OtherErrors == [present |-> TRUE, list |-> <<"e1", "e2">>]

VARIABLES
    storageURL,  \* storage.sourcegraphURL
    store,       \* remote store: settings identifier per subject (0: none)
    pipe,        \* per subscription of configurationCascade
    last,        \* per consumer: the most recent cascade value received
    calls,       \* per call of updateExtensionSettings
    refreshes,   \* number of configurationCascadeRefreshes.next() so far
    flags,       \* featureFlags: the stored value of each flag
    cmd,         \* per invocation of an omnibox command (set-tree, set-open-on-sg)
    adj          \* a snippet code view and the position being adjusted in it

cascadeVars == <<storageURL, store, pipe, last, calls, refreshes>>
pageVars == <<flags, cmd, adj>>
vars == <<storageURL, store, pipe, last, calls, refreshes, flags, cmd, adj>>

\* ------------------------------------------------------- pure functions
\* Variant: every segment is tagged as a property name.
toGQLKeyPathProperties(keyPath) ==
    [i \in 1..Len(keyPath) |-> [property |-> keyPath[i].v]]

\* toGQLKeyPath: one tagged segment per key-path element.
toGQLKeyPath(keyPath) ==
    [i \in 1..Len(keyPath) |->
        IF TypeOf(keyPath[i]) = "string"
        THEN [property |-> keyPath[i].v]
        ELSE [index |-> keyPath[i].v]]

\* createAggregateError: one error that keeps every reported message.
createAggregateError(errors) ==
    [name |-> "AggregateError", message |-> errors]

\* new Error(message); the message is kept as its template parts.
Error(message) == [name |-> "Error", message |-> message]

\* The viewerConfiguration a store in state st answers with.
ViewerConfiguration(st, messages) ==
    [subjects |->
        [i \in 1..Len(StoreSubjects) |->
            [t |-> "object", id |-> StoreSubjects[i],
             latestSettings |->
                IF st[StoreSubjects[i]] = 0
                THEN JSNull
                ELSE [t |-> "object", id |-> st[StoreSubjects[i]]]]],
     merged |-> [contents |-> "{}", messages |-> messages]]

\* gqlToCascade (imported from @sourcegraph/extensions-client-common): a
\* deterministic conversion of the cascade; it is modelled as keeping the
\* subjects and the merged settings as they are.
gqlToCascade(gqlCascade) ==
    [subjects |-> gqlCascade.subjects, merged |-> gqlCascade.merged]

\* lodash isEqual on two converted cascades: deep equality.
isEqual(a, b) == a = b

\* Variant: the map tests data only (if (!data) throw ...).
HasData(resp) == resp.data # "null"

\* The map of the query pipeline: throw unless data.viewerConfiguration.
HasViewerConfiguration(resp) == resp.data = "vc"

\* JS truthiness of an object-or-null-or-undefined value.
Truthy(x) == TypeOf(x) \notin {"null", "undefined"}

\* Variant: find falls back to the first subject when nothing matches.
FindSubjectOrFirst(subjects, subject) ==
    LET hits == {i \in 1..Len(subjects) : subjects[i].id = subject}
    IN  IF hits = {}
        THEN subjects[1]
        ELSE subjects[CHOOSE i \in hits : \A j \in hits : i <= j]

\* subjects.find(s => s.id === subject): the first match, or undefined.
FindSubject(subjects, subject) ==
    LET hits == {i \in 1..Len(subjects) : subjects[i].id = subject}
    IN  IF hits = {}
        THEN JSUndefined
        ELSE subjects[CHOOSE i \in hits : \A j \in hits : i <= j]

\* Variant: the token is never read from the cascade.
LastIDNull(subjectConfig) == JSNull

\* lastID = latestSettings ? latestSettings.id : null
LastIDOf(subjectConfig) ==
    IF Truthy(subjectConfig.latestSettings)
    THEN JSNumber(subjectConfig.latestSettings.id)
    ELSE JSNull

\* Variant: the value of a toggle is args.enabled || null.
EditOfEnabledOrNull(args) ==
    IF args.editIn /\ Truthy(args.edit)
    THEN [kind |-> "edit",
          edit |-> [keyPath |-> toGQLKeyPath(args.edit.path),
                    value |-> args.edit.value]]
    ELSE IF args.extIn
    THEN [kind |-> "edit",
          edit |-> [keyPath |-> toGQLKeyPath(<<JSString("extensions"),
                                               JSString(args.extensionID)>>),
                    value |-> IF args.enabled = JSBoolean(TRUE)
                              THEN args.enabled
                              ELSE JSNull]]
    ELSE [kind |-> "throw", error |-> Error(<<"no edit">>)]

\* Variant: the toggle branch has no 'extensionID' in args test, and there
\* is no final throw.
EditOfNoThrow(args) ==
    IF args.editIn /\ Truthy(args.edit)
    THEN [kind |-> "edit",
          edit |-> [keyPath |-> toGQLKeyPath(args.edit.path),
                    value |-> args.edit.value]]
    ELSE [kind |-> "edit",
          edit |-> [keyPath |-> toGQLKeyPath(<<JSString("extensions"),
                                               JSString(args.extensionID)>>),
                    value |-> IF TypeOf(args.enabled) = "boolean"
                              THEN args.enabled
                              ELSE JSNull]]

\* The edit normalisation of updateExtensionSettings; "throw" when the
\* arguments have neither shape.
EditOf(args) ==
    IF args.editIn /\ Truthy(args.edit)
    THEN [kind |-> "edit",
          edit |-> [keyPath |-> toGQLKeyPath(args.edit.path),
                    value |-> args.edit.value]]
    ELSE IF args.extIn
    THEN [kind |-> "edit",
          edit |-> [keyPath |-> toGQLKeyPath(<<JSString("extensions"),
                                               JSString(args.extensionID)>>),
                    value |-> IF TypeOf(args.enabled) = "boolean"
                              THEN args.enabled
                              ELSE JSNull]]
    ELSE [kind |-> "throw", error |-> Error(<<"no edit">>)]

\* Variant: a missing subject is treated as a subject without settings
\* (subjectConfig && subjectConfig.latestSettings ? ... : null).
updateExtensionSettingsLenient(cascade, subject, args) ==
    LET subjectConfig == FindSubject(cascade.subjects, subject)
    IN  IF EditOf(args).kind = "throw"
        THEN EditOf(args)
        ELSE [kind |-> "mutate",
              variables |-> [subject |-> subject,
                             lastID |-> IF Truthy(subjectConfig)
                                        THEN LastIDOf(subjectConfig)
                                        ELSE JSNull,
                             edit |-> EditOf(args).edit]]

\* The switchMap callback of updateExtensionSettings on the cascade value
\* it took: either it throws, or it calls editConfiguration with the
\* variables {subject, lastID, edit}.
updateExtensionSettings(cascade, subject, args) ==
    LET subjectConfig == FindSubject(cascade.subjects, subject)
    IN  IF ~Truthy(subjectConfig)
        THEN [kind |-> "throw",
              error |-> Error(<<"no configuration subject: ", subject>>)]
        ELSE IF EditOf(args).kind = "throw"
        THEN EditOf(args)
        ELSE [kind |-> "mutate",
              variables |-> [subject |-> subject,
                             lastID |-> LastIDOf(subjectConfig),
                             edit |-> EditOf(args).edit]]

\* Variants: the length test is off by one; the length test is missing.
HasErrorsSeveral(errors) == errors.present /\ Len(errors.list) > 1
HasErrorsPresent(errors) == errors.present

\* The first map of editConfiguration: throw when the response has errors.
HasErrors(errors) == errors.present /\ Len(errors.list) > 0

\* The store accepts an edit only against the version named by lastID.
StoreAccepts(st, variables) ==
    IF st[variables.subject] = 0
    THEN variables.lastID = JSNull
    ELSE variables.lastID = JSNumber(st[variables.subject])

\* ------------------------------------------------------------- the state
\* pipe[p].inflight: the queries of pipeline p the store has not answered,
\* each [k, url, pulse]: k numbers the queries of p in the order sent, url
\* is the endpoint queried, pulse the value of refreshes when it was sent.
\* pipe[p].started: the number of queries p has sent; the inner fetch of
\* its switchMap is the query numbered started.
\* pipe[p].emitted: the query ([k, url, pulse]) whose cascade value the
\* pipeline emitted last to its subscriber; NoQuery before the first.
\* last[c]: what the consumer received last, after its map(gqlToCascade)
\* and distinctUntilChanged(isEqual): the query of the value, the converted
\* value, and the error that ended the stream.
NoQuery == [k |-> 0, url |-> "", pulse |-> 0]
IdlePipe ==
    [st |-> "idle", url |-> "", started |-> 0, inflight |-> {},
     emitted |-> NoQuery]
NoValue ==
    [k |-> 0, url |-> "", pulse |-> 0, value |-> JSUndefined,
     error |-> JSUndefined]
IdleCall ==
    [pc |-> "idle", subject |-> "", args |-> EmptyArgs, took |-> 0,
     cascade |-> JSUndefined, sent |-> 0, variables |-> JSUndefined,
     response |-> JSUndefined, overwrote |-> 0, error |-> JSUndefined]

\* ------------------------------------------------- the omnibox commands
\* (second source file: set-tree and set-open-on-sg)
NumCommands == 2
Commands == 1..NumCommands

\* JS ToBoolean, and the ! operator.
ToBoolean(x) ==
    CASE TypeOf(x) = "boolean" -> x.v
      [] TypeOf(x) = "string" -> x.v # ""
      [] TypeOf(x) \in {"undefined", "null"} -> FALSE
      [] OTHER -> TRUE
JSNot(x) == ~ToBoolean(x)

\* A promise is an object, whatever it resolves to.
Promise(v) == [t |-> "object", resolved |-> v]

FlagNames == {"repositoryFileTreeEnabled", "openFileOnSourcegraph"}
\* The first element of the argument list of a command.
ToArgs == {JSUndefined, JSString("true"), JSString("false"), JSString("x"), JSString("")}

\* (to && to === 'true') || to === 'false'
IsBooleanWord(to) ==
    (ToBoolean(to) /\ to = JSString("true")) \/ to = JSString("false")

\* Variant: setFileTree negates the promise, as setOpenFileOn does.
setFileTreeEnabledNoAwait(stored) == Promise(JSBoolean(stored))

\* const enabled = await featureFlags.isEnabled('repositoryFileTreeEnabled')
setFileTreeEnabled(stored) == JSBoolean(stored)

\* const enabled = featureFlags.isEnabled('openFileOnSourcegraph')
setOpenFileOnEnabled(stored) == Promise(JSBoolean(stored))

\* featureFlags: set stores the value of a flag, isEnabled resolves to the
\* stored value.
FeatureFlagsSet(fl, flag, value) == [fl EXCEPT ![flag] = value]
FeatureFlagsIsEnabled(fl, flag) == fl[flag]

\* cmd[i].pc: "isEnabled" and "set" while the command awaits that call.
\* cmd[i].start: the stored value of the flag when the command was invoked;
\* cmd[i].seq: every earlier invocation had completed by then.
IdleCmd ==
    [pc |-> "idle", flag |-> "", to |-> JSUndefined, enabled |-> JSUndefined,
     value |-> FALSE, start |-> FALSE, seq |-> FALSE]
NewCmd(i, flag, to) ==
    [IdleCmd EXCEPT !.flag = flag, !.to = to, !.start = flags[flag],
                    !.seq = \A j \in Commands : j < i => cmd[j].pc = "done"]

\* ------------------------------------------- the snippet position adjuster
\* (third source file: adjustPositionForSnippet)
MaxLineLen == 3
MaxCharacter == 2
MaxAdjusts == 2

\* A line of text is a sequence of characters.
Chars == {" ", "a"}
Whitespace == {" "}
Lines == UNION {[1..n -> Chars] : n \in 0..MaxLineLen}
Directions == {"ActualToCodeView", "CodeViewToActual"}

\* lodash trimStart: the string without its leading whitespace.
RECURSIVE trimStart(_)
trimStart(line) ==
    IF line = <<>> THEN <<>>
    ELSE IF Head(line) \in Whitespace THEN trimStart(Tail(line))
    ELSE line

\* Math.abs
Abs(n) == IF n < 0 THEN 0 - n ELSE n

\* Variant: the direction is ignored.
ModifierForward(direction) == 1

\* const modifier = direction === AdjustmentDirection.ActualToCodeView ? -1 : 1
Modifier(direction) == IF direction = "ActualToCodeView" THEN 0 - 1 ELSE 1

\* The map of adjustPositionForSnippet on the fetched lines: codeElement is
\* what getCodeElementFromLineNumber returns for position.line (null when
\* there is none), lines the content of the file.
adjustPositionForSnippet(direction, codeElement, lines, position) ==
    IF ~Truthy(codeElement)
    THEN [kind |-> "throw",
          error |-> Error(<<"(adjustPosition) could not find code element for line provided">>)]
    ELSE LET actualLine == lines[(position.line - 1) + 1]
             documentLine ==
                IF TypeOf(codeElement.textContent) = "string"
                   /\ codeElement.textContent.v # <<>>
                THEN codeElement.textContent.v
                ELSE <<>>
             actualLeadingWhiteSpace == Len(actualLine) - Len(trimStart(actualLine))
             documentLeadingWhiteSpace == Len(documentLine) - Len(trimStart(documentLine))
             delta == Abs(actualLeadingWhiteSpace - documentLeadingWhiteSpace)
                        * Modifier(direction)
         IN  [kind |-> "return",
              position |-> [line |-> position.line,
                            character |-> position.character + delta]]

\* The code elements of a snippet line: none, one without text, one with text.
CodeElements ==
    {JSNull, [t |-> "object", textContent |-> JSNull]}
        \cup {[t |-> "object", textContent |-> JSString(l)] : l \in Lines}

\* adj.trail: the directions of the adjustments made so far from adj.start.
\* The file has one line; the position is on it.
AdjInputs ==
    {[lines |-> <<l>>, codeElement |-> el,
      start |-> [line |-> 1, character |-> ch],
      position |-> [line |-> 1, character |-> ch],
      trail |-> <<>>, thrown |-> FALSE] :
        l \in Lines, el \in CodeElements, ch \in 0..MaxCharacter}
InitAdj ==
    [lines |-> <<<<" ", "a">>>>,
     codeElement |-> [t |-> "object", textContent |-> JSString(<<"a">>)],
     start |-> [line |-> 1, character |-> 0],
     position |-> [line |-> 1, character |-> 0],
     trail |-> <<>>, thrown |-> FALSE]

\* The state of the commands and of the adjuster before anything ran.
InitPage ==
    /\ flags = [f \in FlagNames |-> FALSE]
    /\ cmd = [i \in Commands |-> IdleCmd]
    /\ adj = InitAdj

InitCascade ==
    /\ storageURL = "url1"
    /\ store = InitStore
    /\ pipe = [p \in Pipes |-> IdlePipe]
    /\ last = [c \in Consumers |-> NoValue]
    /\ calls = [e \in EditCalls |-> IdleCall]
    /\ refreshes = 0

Init == InitCascade /\ InitPage

\* --------------------------------------------- the switchMap of a pipeline
\* Variant: a pipeline that failed is subscribed again (retry), so that
\* the next emission reaches it.
EmittingOrErrored == {p \in Pipes : pipe[p].st \in {"active", "errored"}}

\* The live subscriptions of configurationCascade: an emission of either
\* input of their combineLatest reaches their switchMap.
Emitting == {p \in Pipes : pipe[p].st = "active"}

\* Variant: mergeMap in place of switchMap keeps every inner fetch.
IsCurrentMerge(p, q) == pipe[p].st = "active"

\* switchMap delivers a result only of its current inner fetch.
IsCurrent(p, q) == pipe[p].st = "active" /\ q.k = pipe[p].started

\* Variant: the url is read once, when the pipeline is subscribed; a later
\* emission queries that url again.
SwitchedFirstURL(p, u, pulse) ==
    [pipe[p] EXCEPT
        !.st = "active", !.url = IF @ = "" THEN u ELSE @, !.started = @ + 1,
        !.inflight = @ \cup {[k |-> pipe[p].started + 1,
                              url |-> IF pipe[p].url = "" THEN u ELSE pipe[p].url,
                              pulse |-> pulse]}]

\* combineLatest of pipeline p emits [u, null]: switchMap unsubscribes from
\* its inner fetch (if any) and sends a new query to u.
Switched(p, u, pulse) ==
    [pipe[p] EXCEPT
        !.st = "active", !.url = u, !.started = @ + 1,
        !.inflight = @ \cup {[k |-> pipe[p].started + 1, url |-> u,
                              pulse |-> pulse]}]

\* Every pipeline of P can still send a query within the bound.
Room(P) == \A p \in P : pipe[p].started < MaxFetches

\* The number of Configuration queries sent so far.
RECURSIVE SumStarted(_, _)
SumStarted(pp, P) ==
    IF P = {} THEN 0
    ELSE LET p == CHOOSE q \in P : TRUE
         IN  pp[p].started + SumStarted(pp, P \ {p})
QueriesSent(pp) == SumStarted(pp, Pipes)

\* -------------------------------------------------------------- actions
\* A consumer subscribes to configurationCascade: combineLatest subscribes
\* to observeSync, which emits the stored url, and to the refreshes, where
\* startWith(null) emits at once; switchMap sends the first query.
\* Consumers are numbered in the order they subscribe.
Subscribe(c) ==
    /\ pipe[c].st = "idle"
    /\ \A d \in Consumers : d < c => pipe[d].st # "idle"
    /\ pipe' = [pipe EXCEPT ![c] = Switched(c, storageURL, refreshes)]
    /\ UNCHANGED <<storageURL, store, last, calls, refreshes, flags, cmd, adj>>

\* The stored url changes: observeSync emits it to every subscription.
EndpointChange(u) ==
    /\ u # storageURL
    /\ Room(Emitting)
    /\ storageURL' = u
    /\ pipe' = [p \in Pipes |->
                    IF p \in Emitting THEN Switched(p, u, refreshes) ELSE pipe[p]]
    /\ UNCHANGED <<store, last, calls, refreshes, flags, cmd, adj>>

\* A call of updateExtensionSettings(subject, args): it subscribes to
\* configurationCascade.pipe(take(1), switchMap(...)).  Calls are numbered
\* in the order they are made.
ApplyEdit(e, subject, args) ==
    /\ calls[e].pc = "idle"
    /\ \A d \in EditCalls : d < e => calls[d].pc # "idle"
    /\ calls' = [calls EXCEPT ![e] =
                    [IdleCall EXCEPT !.pc = "waiting", !.subject = subject,
                                     !.args = args]]
    /\ pipe' = [pipe EXCEPT ![e] = Switched(e, storageURL, refreshes)]
    /\ UNCHANGED <<storageURL, store, last, refreshes, flags, cmd, adj>>

\* The response of a query whose inner subscription switchMap has dropped
\* (or whose pipeline has ended) reaches nobody.
FetchDropped(p, q) ==
    /\ pipe' = [pipe EXCEPT ![p].inflight = @ \ {q}]
    /\ UNCHANGED <<storageURL, store, last, calls, refreshes, flags, cmd, adj>>

\* configurationCascade emits the cascade value of a query on the
\* subscription of consumer c: map converts it with gqlToCascade, and
\* distinctUntilChanged passes it to the consumer unless it isEqual to the
\* value passed last.
ConsumerReceives(c, q, value) ==
    /\ pipe' = [pipe EXCEPT ![c].inflight = @ \ {q}, ![c].emitted = q]
    /\ last' = IF last[c].k # 0 /\ isEqual(last[c].value, gqlToCascade(value))
               THEN last
               ELSE [last EXCEPT ![c] =
                        [NoValue EXCEPT !.k = q.k, !.url = q.url,
                                        !.pulse = q.pulse,
                                        !.value = gqlToCascade(value)]]
    /\ UNCHANGED <<storageURL, store, calls, refreshes, flags, cmd, adj>>

\* Variant: without take(1) the call stays subscribed to the cascade.
CallTakesNoTake(e, q, value) ==
    LET r == updateExtensionSettings(value, calls[e].subject, calls[e].args)
    IN  /\ pipe' = [pipe EXCEPT ![e].inflight = @ \ {q}, ![e].emitted = q]
        /\ calls' = [calls EXCEPT ![e] =
                IF r.kind = "throw"
                THEN [@ EXCEPT !.pc = "failed", !.took = @ + 1,
                               !.cascade = value, !.error = r.error]
                ELSE [@ EXCEPT !.pc = "mutating", !.took = @ + 1,
                               !.cascade = value, !.sent = @ + 1,
                               !.variables = r.variables]]
        /\ UNCHANGED <<storageURL, store, last, refreshes, flags, cmd, adj>>

\* A call receives the one cascade value it takes: take(1) completes and
\* unsubscribes from the cascade, the switchMap callback throws or sends
\* the mutation (editConfiguration -> mutateGraphQL).
CallTakes(e, q, value) ==
    LET r == updateExtensionSettings(value, calls[e].subject, calls[e].args)
    IN  /\ pipe' = [pipe EXCEPT ![e].st = "done", ![e].inflight = @ \ {q},
                                 ![e].emitted = q]
        /\ calls' = [calls EXCEPT ![e] =
                IF r.kind = "throw"
                THEN [@ EXCEPT !.pc = "failed", !.took = @ + 1,
                               !.cascade = value, !.error = r.error]
                ELSE [@ EXCEPT !.pc = "mutating", !.took = @ + 1,
                               !.cascade = value, !.sent = @ + 1,
                               !.variables = r.variables]]
        /\ UNCHANGED <<storageURL, store, last, refreshes, flags, cmd, adj>>

\* The map of the query pipeline throws: the pipeline ends with the error.
FetchFails(p, q, resp) ==
    /\ pipe' = [pipe EXCEPT ![p].st = "errored", ![p].inflight = @ \ {q}]
    /\ IF p \in Consumers
       THEN /\ last' = [last EXCEPT ![p].error = createAggregateError(resp.errors)]
            /\ UNCHANGED calls
       ELSE /\ calls' = [calls EXCEPT ![p].pc = "failed",
                                      ![p].error = createAggregateError(resp.errors)]
            /\ UNCHANGED last
    /\ UNCHANGED <<storageURL, store, refreshes, flags, cmd, adj>>

\* The store answers the query q of pipeline p with resp.
FetchRespond(p, q, resp) ==
    /\ q \in pipe[p].inflight
    /\ IF ~IsCurrent(p, q)
       THEN FetchDropped(p, q)
       ELSE IF HasViewerConfiguration(resp)
       THEN IF p \in Consumers
            THEN ConsumerReceives(p, q, ViewerConfiguration(store, resp.messages))
            ELSE CallTakes(p, q, ViewerConfiguration(store, resp.messages))
       ELSE FetchFails(p, q, resp)

\* Variant: editConfiguration without the tap.
NoRefreshTargets == {}

\* The pipelines the tap of editConfiguration reaches with
\* configurationCascadeRefreshes.next().
RefreshTargets == Emitting

\* The store answers the mutation of call e: it applies the edit and
\* answers without errors, or it answers with errors and changes nothing
\* (overwrote records the version an applied edit replaced).
\* editConfiguration then throws the aggregate error, or completes and
\* fires the refresh, which every live pipeline switches on.
MutationRespond(e, errors) ==
    LET v == calls[e].variables
        applied == errors \in NoErrors
    IN  /\ calls[e].pc = "mutating"
        /\ applied => StoreAccepts(store, v)
        /\ errors = ConflictErrors => ~StoreAccepts(store, v)
        /\ store' = IF applied THEN [store EXCEPT ![v.subject] = @ + 1] ELSE store
        /\ UNCHANGED <<storageURL, last, flags, cmd, adj>>
        /\ IF HasErrors(errors)
           THEN /\ calls' = [calls EXCEPT ![e].pc = "failed",
                                ![e].response = errors,
                                ![e].overwrote = IF applied THEN store[v.subject] ELSE 0,
                                ![e].error = createAggregateError(errors.list)]
                /\ UNCHANGED <<pipe, refreshes>>
           ELSE /\ Room(RefreshTargets)
                /\ calls' = [calls EXCEPT ![e].pc = "done",
                                ![e].response = errors,
                                ![e].overwrote = IF applied THEN store[v.subject] ELSE 0]
                /\ refreshes' = refreshes + 1
                /\ pipe' = [p \in Pipes |->
                                IF p \in RefreshTargets
                                THEN Switched(p, pipe[p].url, refreshes + 1)
                                ELSE pipe[p]]

\* ------------------------------------------------- the omnibox commands
\* setFileTree([to]), up to its first await.  Invocations are numbered in
\* the order they are made.
setFileTree(i, to) ==
    /\ cmd[i].pc = "idle"
    /\ \A j \in Commands : j < i => cmd[j].pc # "idle"
    /\ cmd' = [cmd EXCEPT ![i] =
            IF IsBooleanWord(to)
            THEN [NewCmd(i, "repositoryFileTreeEnabled", to) EXCEPT
                    !.pc = "set", !.value = (to = JSString("true"))]
            ELSE [NewCmd(i, "repositoryFileTreeEnabled", to) EXCEPT
                    !.pc = "isEnabled"]]
    /\ UNCHANGED <<cascadeVars, flags, adj>>

\* setFileTree after await featureFlags.isEnabled(...): it calls
\* featureFlags.set with !enabled.
IsEnabledResolves(i) ==
    /\ cmd[i].pc = "isEnabled"
    /\ LET enabled == setFileTreeEnabled(FeatureFlagsIsEnabled(flags, cmd[i].flag))
       IN  cmd' = [cmd EXCEPT ![i].pc = "set", ![i].enabled = enabled,
                              ![i].value = JSNot(enabled)]
    /\ UNCHANGED <<cascadeVars, flags, adj>>

\* setOpenFileOn([to]), up to its first await: isEnabled is called and not
\* awaited, and featureFlags.set is called with !enabled.
setOpenFileOn(i, to) ==
    /\ cmd[i].pc = "idle"
    /\ \A j \in Commands : j < i => cmd[j].pc # "idle"
    /\ cmd' = [cmd EXCEPT ![i] =
            IF IsBooleanWord(to)
            THEN [NewCmd(i, "openFileOnSourcegraph", to) EXCEPT
                    !.pc = "set", !.value = (to = JSString("true"))]
            ELSE LET enabled ==
                        setOpenFileOnEnabled(
                            FeatureFlagsIsEnabled(flags, "openFileOnSourcegraph"))
                 IN  [NewCmd(i, "openFileOnSourcegraph", to) EXCEPT
                        !.pc = "set", !.enabled = enabled,
                        !.value = JSNot(enabled)]]
    /\ UNCHANGED <<cascadeVars, flags, adj>>

\* await featureFlags.set(flag, value) of either command: the value is
\* stored and the command returns.
SetResolves(i) ==
    /\ cmd[i].pc = "set"
    /\ flags' = FeatureFlagsSet(flags, cmd[i].flag, cmd[i].value)
    /\ cmd' = [cmd EXCEPT ![i].pc = "done"]
    /\ UNCHANGED <<cascadeVars, adj>>

\* SpecCommands: the two commands, from every stored value of the flags.
InitCommands ==
    /\ InitCascade
    /\ flags \in [FlagNames -> BOOLEAN]
    /\ cmd = [i \in Commands |-> IdleCmd]
    /\ adj = InitAdj

NextCommands ==
    \/ \E i \in Commands, to \in ToArgs : setFileTree(i, to)
    \/ \E i \in Commands : IsEnabledResolves(i)
    \/ \E i \in Commands, to \in ToArgs : setOpenFileOn(i, to)
    \/ \E i \in Commands : SetResolves(i)

SpecCommands == InitCommands /\ [][NextCommands]_vars

\* ------------------------------------------- the snippet position adjuster
\* One call of adjustPositionForSnippet on the current position; the
\* position it returns is the current position of the next call.
Adjust(direction) ==
    /\ ~adj.thrown
    /\ Len(adj.trail) < MaxAdjusts
    /\ LET r == adjustPositionForSnippet(direction, adj.codeElement, adj.lines,
                                         adj.position)
       IN  adj' = IF r.kind = "throw"
                  THEN [adj EXCEPT !.thrown = TRUE]
                  ELSE [adj EXCEPT !.position = r.position,
                                   !.trail = Append(@, direction)]
    /\ UNCHANGED <<cascadeVars, flags, cmd>>

\* SpecAdjust: every line, code element and character within the bounds.
InitAdjust ==
    /\ InitCascade
    /\ flags = [f \in FlagNames |-> FALSE]
    /\ cmd = [i \in Commands |-> IdleCmd]
    /\ adj \in AdjInputs

NextAdjust == \E direction \in Directions : Adjust(direction)

SpecAdjust == InitAdjust /\ [][NextAdjust]_vars

\* The inputs of the calls and the answers of the store.
CallArgs == {ExplicitArgs, EmptyArgs}
QueryAnswers == {r \in FetchResponses : r.messages = <<>> /\ r.data # "novc"}
MutationAnswers == NoErrors \cup {ConflictErrors, OtherErrors}

\* Spec: every consumer and one caller.
FirstCall == NumConsumers + 1

Next ==
    \/ \E c \in Consumers : Subscribe(c)
    \/ \E u \in URLs : EndpointChange(u)
    \/ \E subject \in SubjectArgs, args \in CallArgs :
            ApplyEdit(FirstCall, subject, args)
    \/ \E p \in Pipes : \E q \in pipe[p].inflight, resp \in QueryAnswers :
            FetchRespond(p, q, resp)
    \/ \E errors \in MutationAnswers : MutationRespond(FirstCall, errors)

Spec == Init /\ [][Next]_vars

\* SpecEdits: every caller and one consumer.
NextEdits ==
    \/ Subscribe(1)
    \/ \E u \in URLs : EndpointChange(u)
    \/ \E e \in EditCalls, subject \in SubjectArgs, args \in CallArgs :
            ApplyEdit(e, subject, args)
    \/ \E p \in Pipes : \E q \in pipe[p].inflight, resp \in QueryAnswers :
            FetchRespond(p, q, resp)
    \/ \E e \in EditCalls, errors \in MutationAnswers : MutationRespond(e, errors)

SpecEdits == Init /\ [][NextEdits]_vars

\* SpecArgs: one call, with every argument of ArgInputs and every answer
\* of the store to its query and to its mutation.
NextArgs ==
    \/ \E subject \in SubjectArgs, args \in ArgInputs :
            ApplyEdit(FirstCall, subject, args)
    \/ \E q \in pipe[FirstCall].inflight, resp \in FetchResponses :
            FetchRespond(FirstCall, q, resp)
    \/ \E errors \in MutationAnswers : MutationRespond(FirstCall, errors)

SpecArgs == Init /\ [][NextArgs]_vars

\* SpecAnswers: the consumers, and every answer of the store to a query.
NextAnswers ==
    \/ \E c \in Consumers : Subscribe(c)
    \/ \E u \in URLs : EndpointChange(u)
    \/ \E c \in Consumers : \E q \in pipe[c].inflight, resp \in FetchResponses :
            FetchRespond(c, q, resp)

SpecAnswers == Init /\ [][NextAnswers]_vars

\* SpecLive: the store answers the current query of every pipeline.
SpecLive ==
    /\ Spec
    /\ \A p \in Pipes :
        WF_vars(\E q \in pipe[p].inflight, resp \in QueryAnswers :
                    IsCurrent(p, q) /\ FetchRespond(p, q, resp))

\* ------------------------------------------------------------ properties
\* This step delivers a result (a value or a failure) to pipeline p: the
\* cascade emits on the subscription, or the consumer receives something.
Delivered(p) ==
    IF p \in Consumers
    THEN pipe'[p].emitted # pipe[p].emitted \/ last'[p] # last[p]
    ELSE calls[p].pc = "waiting" /\ calls'[p].pc # "waiting"

\* This step subscribes pipeline p to configurationCascade.
Subscribes(p) == pipe[p].st = "idle" /\ pipe'[p].st # "idle"

\* C1 (switch-latest): whenever a result is delivered to a consumer or a
\* caller, it is the result of the query its pipeline started most
\* recently; the answer to a query superseded by a later trigger is never
\* delivered, whenever it arrives.
C1_SwitchLatest ==
    [][\A p \in Pipes :
        Delivered(p) =>
            \E q \in pipe[p].inflight :
                /\ q.k = pipe[p].started
                /\ pipe'[p].inflight = pipe[p].inflight \ {q}]_vars

\* A consumer holds the value of its newest query while a query that a
\* trigger superseded is still unanswered.
C1_Witness ==
    \E c \in Consumers :
        /\ last[c].k > 0
        /\ last[c].k = pipe[c].started
        /\ \E q \in pipe[c].inflight : q.k < last[c].k

\* C2 (replay-latest): a consumer that subscribes when another consumer
\* already holds a cascade value receives that value in the same step, and
\* its subscription sends no query.
C2_ReplayLatest ==
    [][\A c \in Consumers :
        (Subscribes(c) /\ \E d \in Consumers : last[d].k # 0) =>
            /\ last'[c].k # 0
            /\ \E d \in Consumers \ {c} : last'[c].value = last[d].value
            /\ QueriesSent(pipe') = QueriesSent(pipe)]_vars

\* C3 (shared fetch): the cascade is subscribed against the network once:
\* the first subscription sends one query and a later one none; an
\* endpoint change or refresh pulse sends exactly one query whatever the
\* number of live subscriptions; a result delivered to one consumer is
\* delivered to every live consumer.
C3_SharedFetch ==
    [][/\ ((storageURL' # storageURL \/ refreshes' # refreshes) /\ Emitting # {})
            => QueriesSent(pipe') = QueriesSent(pipe) + 1
       /\ \A p \in Pipes :
            Subscribes(p) =>
                QueriesSent(pipe') =
                    QueriesSent(pipe) + (IF Emitting = {} THEN 1 ELSE 0)
       /\ \A c, d \in Consumers :
            (last'[c] # last[c] /\ pipe[d].st = "active") =>
                /\ last'[d].value = last'[c].value
                /\ last'[d].error = last'[c].error]_vars

\* The store has answered the mutation of call e.
Answered(e) == calls[e].sent >= 1 /\ calls[e].pc \in {"done", "failed"}

\* The store applied the mutation of call e.
Applied(e) == Answered(e) /\ calls[e].response \in NoErrors

\* The identifiers of the subjects of a cascade value.
CascadeIDs(cascade) ==
    {cascade.subjects[i].id : i \in 1..Len(cascade.subjects)}

\* The settings version of its subject that call e read in the cascade
\* value it took (0: no settings document).
ReadVersion(e) ==
    LET subjects == calls[e].cascade.subjects
        i == CHOOSE j \in 1..Len(subjects) : subjects[j].id = calls[e].subject
    IN  IF subjects[i].latestSettings = JSNull
        THEN 0
        ELSE subjects[i].latestSettings.id

\* C4 (optimistic concurrency): with a store that rejects a mutation whose
\* lastID is not the subject's current settings identifier, an applied
\* edit replaces exactly the version its call read; of two calls on the
\* same subject that sent the same lastID at most one succeeds, and a call
\* that fails does so with the aggregate of the errors the store returned.
C4_OptimisticConcurrency ==
    /\ \A e \in EditCalls : Applied(e) => calls[e].overwrote = ReadVersion(e)
    /\ \A e \in EditCalls :
        (Answered(e) /\ calls[e].pc = "failed") =>
            /\ Len(calls[e].response.list) >= 1
            /\ calls[e].error =
                [name |-> "AggregateError", message |-> calls[e].response.list]
    /\ \A e1, e2 \in EditCalls :
        (/\ e1 # e2
         /\ Answered(e1)
         /\ Answered(e2)
         /\ calls[e1].variables.subject = calls[e2].variables.subject
         /\ calls[e1].variables.lastID = calls[e2].variables.lastID)
        => ~(calls[e1].pc = "done" /\ calls[e2].pc = "done")

\* Two calls read the same version of one subject; the store applied one
\* edit and rejected the other as conflicting.
C4_Witness ==
    \E e1, e2 \in EditCalls :
        /\ e1 # e2
        /\ Answered(e1)
        /\ Answered(e2)
        /\ calls[e1].variables.subject = calls[e2].variables.subject
        /\ calls[e1].variables.lastID = calls[e2].variables.lastID
        /\ calls[e1].pc = "done"
        /\ calls[e2].pc = "failed"
        /\ calls[e2].response = ConflictErrors

\* C5 (unknown subject): a call whose subject is not among the subjects of
\* the cascade value it took has failed with an error whose message
\* includes the identifier, has sent no mutation, and has not fired the
\* refresh (the refreshes fired are those of the calls that succeeded).
C5_UnknownSubject ==
    \A e \in EditCalls :
        (calls[e].took >= 1 /\ calls[e].subject \notin CascadeIDs(calls[e].cascade)) =>
            /\ calls[e].pc = "failed"
            /\ calls[e].error.name = "Error"
            /\ \E i \in 1..Len(calls[e].error.message) :
                    calls[e].error.message[i] = calls[e].subject
            /\ calls[e].sent = 0
            /\ refreshes = Cardinality({d \in EditCalls : calls[d].pc = "done"})

\* A call for the subject "sx" took a cascade value without that subject.
C5_Witness ==
    \E e \in EditCalls :
        /\ calls[e].took = 1
        /\ calls[e].subject = "sx"
        /\ calls[e].pc = "failed"

\* C6 (refresh after success): the step in which a mutation succeeds sends
\* exactly one Configuration query, whatever the number of subscriptions.
C6_RefreshOnce ==
    [][\A e \in EditCalls :
        (calls[e].pc = "mutating" /\ calls'[e].pc = "done") =>
            QueriesSent(pipe') = QueriesSent(pipe) + 1]_vars

\* The consumer c holds the cascade value of a query sent after the n-th
\* successful edit: the cascade emitted it on the subscription of c, and c
\* received it, or holds a value equal to it.
SeesEdit(c, n) == pipe[c].emitted.pulse >= n /\ last[c].k # 0

\* C7 as stated (eventual visibility): once the n-th edit has succeeded,
\* every subscribed consumer eventually holds the cascade value of a query
\* sent after that success, given that the store answers every current
\* query.
C7_EventualVisibility ==
    \A c \in Consumers : \A n \in 1..NumEdits :
        (refreshes >= n /\ pipe[c].st = "active") ~> SeesEdit(c, n)

\* C7 as amended: once the n-th edit has succeeded, every subscribed
\* consumer eventually holds the cascade value of a query sent after that
\* success, or its subscription has ended: an answer without a
\* viewerConfiguration fails the stream of the consumer, which is never
\* subscribed again, so that it never sees the edit.
C7_EventualVisibilityUnlessFailed ==
    \A c \in Consumers : \A n \in 1..NumEdits :
        (refreshes >= n /\ pipe[c].st = "active")
            ~> (pipe[c].st = "errored" \/ SeesEdit(c, n))

\* A consumer that had received a value before the edit succeeded holds a
\* value of a query sent after the success.
C7_Witness ==
    \E c \in Consumers :
        /\ pipe[c].st = "active"
        /\ refreshes >= 1
        /\ pipe[c].emitted.pulse >= 1
        /\ last[c].k >= 2
        /\ last[c].pulse >= 1

\* C8 (mutation failure): when the store answers a mutation, the call fails
\* (with the aggregate of the errors) exactly when the answer carries one
\* or more errors, and the refresh is fired exactly when it carries none; a
\* failing mutation fires no refresh and sends no query.
C8_MutationFailure ==
    [][\A e \in EditCalls :
        (calls[e].pc = "mutating" /\ calls'[e].pc # "mutating") =>
            /\ calls'[e].pc = "failed" <=>
                    (calls'[e].response.present /\ Len(calls'[e].response.list) >= 1)
            /\ calls'[e].pc = "failed" =>
                    /\ calls'[e].error =
                        [name |-> "AggregateError",
                         message |-> calls'[e].response.list]
                    /\ UNCHANGED <<pipe, refreshes>>
            /\ refreshes' = refreshes + 1 <=>
                    ~(calls'[e].response.present /\ Len(calls'[e].response.list) >= 1)
            /\ refreshes' \in {refreshes, refreshes + 1}]_vars

\* A mutation was answered with two errors and its call failed with both.
C8_Witness ==
    \E e \in EditCalls :
        /\ Answered(e)
        /\ calls[e].pc = "failed"
        /\ Len(calls[e].error.message) = 2

\* The value a key-path segment of the mutation carries.
SegmentValue(seg) ==
    IF "property" \in DOMAIN seg THEN seg.property ELSE seg.index

\* C9 (concurrency token): a mutation sent by a call carries the call's
\* subject and, as lastID, the latestSettings.id of that subject in the
\* cascade value the call took, or null when it has no latestSettings;
\* for an explicit edit it carries the segments of the path in order and
\* the value.
C9_ConcurrencyToken ==
    \A e \in EditCalls :
        calls[e].sent >= 1 =>
            /\ calls[e].variables.subject = calls[e].subject
            /\ \E i \in 1..Len(calls[e].cascade.subjects) :
                LET sc == calls[e].cascade.subjects[i]
                IN  /\ sc.id = calls[e].subject
                    /\ IF sc.latestSettings = JSNull
                       THEN calls[e].variables.lastID = JSNull
                       ELSE calls[e].variables.lastID = JSNumber(sc.latestSettings.id)
            /\ (calls[e].args.editIn /\ calls[e].args.edit # JSNull
                    /\ calls[e].args.edit # JSUndefined) =>
                /\ Len(calls[e].variables.edit.keyPath) = Len(calls[e].args.edit.path)
                /\ \A i \in 1..Len(calls[e].args.edit.path) :
                        SegmentValue(calls[e].variables.edit.keyPath[i]) =
                            calls[e].args.edit.path[i].v
                /\ calls[e].variables.edit.value = calls[e].args.edit.value

\* A mutation was sent for a subject that has a settings document.
C9_Witness ==
    \E e \in EditCalls :
        /\ calls[e].sent = 1
        /\ calls[e].args = ExplicitArgs
        /\ calls[e].variables.lastID # JSNull

\* C10 (fetch before mutate): a call that has sent its mutation has taken
\* the answer of a completed query of its own, and that cascade value
\* contains the target subject; a call still waiting for its first
\* cascade value has taken nothing and sent nothing.
C10_FetchBeforeMutate ==
    \A e \in EditCalls :
        /\ calls[e].sent >= 1 =>
            /\ calls[e].took >= 1
            /\ pipe[e].started >= 1
            /\ \A q \in pipe[e].inflight : q.k < pipe[e].started
            /\ calls[e].subject \in CascadeIDs(calls[e].cascade)
        /\ calls[e].pc = "waiting" =>
            /\ calls[e].took = 0
            /\ calls[e].sent = 0
            /\ calls[e].cascade = JSUndefined

\* A call waited for its query, took the answer and sent its mutation.
C10_Witness ==
    \E e \in EditCalls :
        /\ calls[e].pc = "mutating"
        /\ calls[e].took = 1
        /\ calls[e].subject \in CascadeIDs(calls[e].cascade)

\* C11 (single shot): a call of updateExtensionSettings takes at most one
\* cascade value and sends at most one mutation; the step in which it takes
\* the value ends its subscription, and from then on no refresh pulse (its
\* own included) and no endpoint change starts a query on its behalf.
C11_SingleShot ==
    [][\A e \in EditCalls :
        /\ calls'[e].took <= 1
        /\ calls'[e].sent <= 1
        /\ calls'[e].took > calls[e].took => pipe'[e].st = "done"
        /\ calls[e].took = 1 =>
            /\ pipe'[e].st = "done"
            /\ pipe'[e].started = pipe[e].started
            /\ calls'[e].cascade = calls[e].cascade
            /\ calls'[e].variables = calls[e].variables]_vars

\* A call took its value from the first endpoint and sent its mutation; the
\* endpoint then changed, the mutation succeeded, and a consumer received
\* the value refetched on the refresh of the call.
C11_Witness ==
    /\ calls[FirstCall].pc = "done"
    /\ calls[FirstCall].took = 1
    /\ calls[FirstCall].sent = 1
    /\ pipe[FirstCall].started = 1
    /\ pipe[FirstCall].url # storageURL
    /\ refreshes >= 1
    /\ \E c \in Consumers : last[c].pulse >= 1

\* The call e has taken its cascade value (the switchMap callback has run).
Took(e) == calls[e].took = 1

\* The arguments carry an explicit edit: an edit property that is an object.
HasExplicitEdit(args) == args.editIn /\ args.edit \notin {JSUndefined, JSNull}

\* C12 (toggle normalisation): the mutation of a call whose arguments are
\* the toggle shorthand {extensionID, enabled} carries the key path
\* [{property: "extensions"}, {property: extensionID}], and the value
\* enabled when enabled is true or false, null when it is undefined or null.
C12_ToggleNormalization ==
    \A e \in EditCalls :
        (calls[e].sent = 1 /\ ~HasExplicitEdit(calls[e].args) /\ calls[e].args.extIn) =>
            /\ calls[e].variables.edit.keyPath =
                    <<[property |-> "extensions"],
                      [property |-> calls[e].args.extensionID]>>
            /\ calls[e].variables.edit.value =
                    IF calls[e].args.enabled \in {JSBoolean(TRUE), JSBoolean(FALSE)}
                    THEN calls[e].args.enabled
                    ELSE JSNull

\* A toggle that disables the extension "bar" was sent with the value false,
\* next to an edit property that is null.
C12_Witness ==
    /\ calls[FirstCall].sent = 1
    /\ calls[FirstCall].args.editIn
    /\ calls[FirstCall].args.edit = JSNull
    /\ calls[FirstCall].args.extensionID = "bar"
    /\ calls[FirstCall].args.enabled = JSBoolean(FALSE)
    /\ calls[FirstCall].variables.edit.value = JSBoolean(FALSE)

\* The arguments have neither an explicit edit nor an extensionID.
Malformed(args) == ~HasExplicitEdit(args) /\ ~args.extIn

\* C13 as stated (malformed edit): a call with malformed arguments that has
\* taken its cascade value has failed with the error 'no edit', has sent no
\* mutation and has fired no refresh.
C13_MalformedEdit ==
    \A e \in EditCalls :
        (Took(e) /\ Malformed(calls[e].args)) =>
            /\ calls[e].pc = "failed"
            /\ calls[e].error = Error(<<"no edit">>)
            /\ calls[e].sent = 0
            /\ refreshes = 0

\* C13 as amended: a call with malformed arguments never sends a mutation
\* and never fires a refresh; once it has taken its cascade value it has
\* failed, with the error 'no edit' when the cascade value has the subject
\* of the call and with 'no configuration subject' when it has not.
C13_MalformedEditKnownSubject ==
    \A e \in EditCalls :
        (calls[e].pc # "idle" /\ Malformed(calls[e].args)) =>
            /\ calls[e].sent = 0
            /\ refreshes = 0
            /\ calls[e].pc \in {"waiting", "failed"}
            /\ Took(e) =>
                /\ calls[e].pc = "failed"
                /\ calls[e].error =
                    IF calls[e].subject \in CascadeIDs(calls[e].cascade)
                    THEN Error(<<"no edit">>)
                    ELSE Error(<<"no configuration subject: ", calls[e].subject>>)

\* A call on a subject of the cascade, with an edit property that is null
\* and no extensionID, has failed with 'no edit'.
C13_Witness ==
    /\ Took(FirstCall)
    /\ calls[FirstCall].subject \in CascadeIDs(calls[FirstCall].cascade)
    /\ calls[FirstCall].args.editIn
    /\ calls[FirstCall].args.edit = JSNull
    /\ ~calls[FirstCall].args.extIn
    /\ calls[FirstCall].error = Error(<<"no edit">>)

\* C16 (key-path encoding): the key path of the mutation of an explicit
\* edit has the length of the path given; its i-th element has the one tag
\* property, with the string, when the i-th segment is a string, and the
\* one tag index, with the number, when it is a number.
C16_KeyPathEncoding ==
    \A e \in EditCalls :
        (calls[e].sent = 1 /\ HasExplicitEdit(calls[e].args)) =>
            LET path == calls[e].args.edit.path
                keyPath == calls[e].variables.edit.keyPath
            IN  /\ Len(keyPath) = Len(path)
                /\ \A i \in 1..Len(path) :
                    IF path[i].t = "string"
                    THEN /\ DOMAIN keyPath[i] = {"property"}
                         /\ keyPath[i].property = path[i].v
                    ELSE /\ DOMAIN keyPath[i] = {"index"}
                         /\ keyPath[i].index = path[i].v

\* The mutation of the explicit edit at [1, "a"] was sent with the key path
\* [{index: 1}, {property: "a"}].
C16_Witness ==
    /\ calls[FirstCall].sent = 1
    /\ HasExplicitEdit(calls[FirstCall].args)
    /\ calls[FirstCall].args.edit.path = <<JSNumber(1), JSString("a")>>
    /\ calls[FirstCall].variables.edit.keyPath = <<[index |-> 1], [property |-> "a"]>>

\* C14 (fetch result classification): when the store answers the current
\* query of a consumer, the cascade emits a value, with the merged.messages
\* of the response, exactly when the response has data with a
\* viewerConfiguration: the consumer then holds that value (it receives it,
\* unless it equals the value it received last) and its stream goes on; on
\* any other response nothing is emitted, nothing is received, the stream
\* fails with the aggregate of the errors of the response, and the
\* subscription ends.
C14_FetchClassification ==
    [][\A c \in Consumers : \A q \in pipe[c].inflight, resp \in FetchResponses :
        (pipe[c].st = "active" /\ q.k = pipe[c].started /\ FetchRespond(c, q, resp)) =>
            IF resp.data = "vc"
            THEN /\ pipe'[c].emitted = q
                 /\ last'[c].value.merged.messages = resp.messages
                 /\ last'[c].value = ViewerConfiguration(store, resp.messages)
                 /\ IF last[c].k # 0
                       /\ last[c].value = ViewerConfiguration(store, resp.messages)
                    THEN last'[c] = last[c]
                    ELSE last'[c].k = q.k
                 /\ last'[c].error = last[c].error
                 /\ pipe'[c].st = "active"
            ELSE /\ pipe'[c].emitted = pipe[c].emitted
                 /\ last'[c].k = last[c].k
                 /\ last'[c].value = last[c].value
                 /\ last'[c].error = [name |-> "AggregateError", message |-> resp.errors]
                 /\ pipe'[c].st = "errored"]_vars

\* One consumer holds a value whose merged.messages is not empty, received
\* from its first query and emitted again, equal, from its second; the
\* stream of another failed on a response without data and without errors.
C14_Witness ==
    \E c, d \in Consumers :
        /\ last[c].k = 1
        /\ pipe[c].emitted.k = 2
        /\ last[c].value.merged.messages = <<"m1">>
        /\ pipe[c].st = "active"
        /\ pipe[d].st = "errored"
        /\ last[d].k = 0
        /\ last[d].error = [name |-> "AggregateError", message |-> <<>>]

\* C15 (endpoint change invalidation): a change of the stored url makes
\* every subscribed consumer send one new query, to the new url; and every
\* cascade value emitted on the subscription of a consumer, and so every
\* value the consumer receives, was fetched from the url stored at that
\* time.
C15_EndpointInvalidation ==
    [][\A c \in Consumers :
        /\ (storageURL' # storageURL /\ pipe[c].st = "active") =>
                /\ pipe'[c].started = pipe[c].started + 1
                /\ \E q \in pipe'[c].inflight :
                        /\ q.k = pipe'[c].started
                        /\ q.url = storageURL'
                        /\ q \notin pipe[c].inflight
        /\ pipe'[c].emitted # pipe[c].emitted =>
                /\ pipe'[c].emitted.url = storageURL
                /\ pipe'[c].emitted.url = storageURL'
        /\ last'[c].k # last[c].k =>
                /\ last'[c].url = storageURL
                /\ last'[c].url = storageURL']_vars

\* After a change of the url a consumer holds the value of its second
\* query, fetched from the new url, while the answer of its first query, to
\* the old url, is still outstanding.
C15_Witness ==
    \E c \in Consumers :
        /\ last[c].k = 2
        /\ last[c].url = "url2"
        /\ storageURL = "url2"
        /\ \E q \in pipe[c].inflight : q.k = 1 /\ q.url = "url1"

\* C17 (no retry, failure is terminal): the step in which the query of a
\* consumer fails delivers the failure and sends no query; from then on the
\* consumer stays failed, receives nothing and sends no query, whatever
\* refresh or endpoint change follows; and a call that failed stays failed
\* and sends neither a query nor a mutation again.
C17_FailureTerminal ==
    [][/\ \A c \in Consumers :
            /\ (pipe[c].st = "active" /\ pipe'[c].st = "errored") =>
                    /\ last'[c].error # JSUndefined
                    /\ last'[c].k = last[c].k
                    /\ pipe'[c].emitted = pipe[c].emitted
                    /\ pipe'[c].started = pipe[c].started
            /\ pipe[c].st = "errored" =>
                    /\ pipe'[c].st = "errored"
                    /\ pipe'[c].started = pipe[c].started
                    /\ pipe'[c].emitted = pipe[c].emitted
                    /\ last'[c] = last[c]
       /\ \A e \in EditCalls :
            calls[e].pc = "failed" =>
                    /\ calls'[e] = calls[e]
                    /\ pipe'[e].st = pipe[e].st
                    /\ pipe'[e].started = pipe[e].started]_vars

\* The one query of the consumer failed; since then the url changed and a
\* call fired a refresh, and the mutation of another call failed.
C17_Witness ==
    /\ pipe[1].st = "errored"
    /\ pipe[1].started = 1
    /\ pipe[1].url # storageURL
    /\ last[1].error # JSUndefined
    /\ refreshes >= 1
    /\ \E e \in EditCalls :
            /\ calls[e].pc = "failed"
            /\ calls[e].sent = 1
            /\ calls[e].response \notin NoErrors

\* Invocation i ran alone: no other invocation was in progress while it ran.
Alone(i) ==
    /\ cmd[i].pc = "done"
    /\ cmd[i].seq
    /\ \A j \in Commands : j > i => (cmd[j].pc = "idle" \/ cmd[j].seq)

\* Invocation i is the last one made.
LastCommand(i) == \A j \in Commands : j > i => cmd[j].pc = "idle"

\* What the claims say a command invoked with to stores in a flag that held
\* stored: the boolean named by 'true' or 'false', else the negation.
Toggled(to, stored) ==
    IF to = JSString("true") THEN TRUE
    ELSE IF to = JSString("false") THEN FALSE
    ELSE ~stored

\* C18 (set-tree): an invocation of setFileTree that ran alone has stored,
\* in repositoryFileTreeEnabled, the boolean named by its argument 'true'
\* or 'false', and with any other or no argument the negation of the value
\* stored when it was invoked; after two consecutive invocations without
\* argument the flag holds the value it held before the first.
C18_SetFileTree ==
    /\ \A i \in Commands :
        (Alone(i) /\ cmd[i].flag = "repositoryFileTreeEnabled") =>
            /\ cmd[i].value = Toggled(cmd[i].to, cmd[i].start)
            /\ LastCommand(i) =>
                    flags["repositoryFileTreeEnabled"] = Toggled(cmd[i].to, cmd[i].start)
    /\ \A i \in Commands :
        (/\ i + 1 \in Commands
         /\ Alone(i) /\ Alone(i + 1) /\ LastCommand(i + 1)
         /\ cmd[i].flag = "repositoryFileTreeEnabled"
         /\ cmd[i + 1].flag = "repositoryFileTreeEnabled"
         /\ cmd[i].to = JSUndefined /\ cmd[i + 1].to = JSUndefined) =>
            flags["repositoryFileTreeEnabled"] = cmd[i].start

\* Two consecutive invocations of set-tree without argument, on a flag that
\* held true: the first stored false, the second true again.
C18_Witness ==
    /\ Alone(1) /\ Alone(2) /\ LastCommand(2)
    /\ cmd[1].flag = "repositoryFileTreeEnabled"
    /\ cmd[2].flag = "repositoryFileTreeEnabled"
    /\ cmd[1].to = JSUndefined /\ cmd[2].to = JSUndefined
    /\ cmd[1].start
    /\ ~cmd[2].start
    /\ flags["repositoryFileTreeEnabled"]

\* C19 (set-open-on-sg): an invocation of setOpenFileOn that ran alone has
\* stored, in openFileOnSourcegraph, the boolean named by its argument
\* 'true' or 'false', and with any other or no argument the negation of the
\* value stored when it was invoked: without argument, a flag that was
\* false is true afterwards.
C19_SetOpenFileOn ==
    \A i \in Commands :
        (Alone(i) /\ cmd[i].flag = "openFileOnSourcegraph") =>
            /\ cmd[i].value = Toggled(cmd[i].to, cmd[i].start)
            /\ LastCommand(i) =>
                    flags["openFileOnSourcegraph"] = Toggled(cmd[i].to, cmd[i].start)

\* The number of whitespace characters a line starts with.
LeadingWhitespace(line) ==
    CHOOSE n \in 0..Len(line) :
        /\ \A i \in 1..n : line[i] \in Whitespace
        /\ n = Len(line) \/ line[n + 1] \notin Whitespace

\* d: the distance between the leading whitespace of the line of the file
\* and that of the line displayed (no text displayed: the empty line).
WhitespaceDistance ==
    LET actual == LeadingWhitespace(adj.lines[adj.start.line])
        shown == IF adj.codeElement.textContent = JSNull
                 THEN 0
                 ELSE LeadingWhitespace(adj.codeElement.textContent.v)
    IN  IF actual > shown THEN actual - shown ELSE shown - actual

\* The shift the claim gives to the adjustments of a trail, one after another.
RECURSIVE ShiftOf(_)
ShiftOf(trail) ==
    IF trail = <<>> THEN 0
    ELSE ShiftOf(Tail(trail))
            + (IF Head(trail) = "ActualToCodeView"
               THEN 0 - WhitespaceDistance
               ELSE WhitespaceDistance)

\* C20 (snippet position adjustment): every adjustment keeps the line and
\* moves the character by d, down for ActualToCodeView and up for
\* CodeViewToActual; after an adjustment in one direction followed by one
\* in the other the position is the original one.
C20_SnippetAdjustment ==
    adj.trail # <<>> =>
        /\ adj.position.line = adj.start.line
        /\ adj.position.character = adj.start.character + ShiftOf(adj.trail)
        /\ (Len(adj.trail) = 2 /\ adj.trail[1] # adj.trail[2]) =>
                adj.position = adj.start

\* A position at character 1 of a line indented by two more characters in
\* the file than in the view was adjusted to the view and back.
C20_Witness ==
    /\ adj.trail = <<"ActualToCodeView", "CodeViewToActual">>
    /\ adj.start.character = 1
    /\ WhitespaceDistance = 2
    /\ adj.position = adj.start

====
